---- MODULE Spec2Model ----
(***************************************************************************)
(* Transaction-to-graph aggregation and size-bound trim of the blockchain  *)
(* transaction visualizer: graph/graph_builder.py (the web builder, called *)
(* from app.py) and desktop_app.py (the desktop builder).                  *)
(*                                                                         *)
(* Strings are tuples of one-character strings, so that str.lower() and    *)
(* int()/float() parsing are computed character by character.  Amounts are *)
(* Python floats: they are held here in tenths of a base unit (the 1e18    *)
(* scale of wei_to_eth is a change of unit), and every float result is     *)
(* rounded to nearest, ties to even, on a significand of MantBits bits     *)
(* instead of binary64's 53.                                               *)
(***************************************************************************)
EXTENDS Integers, Sequences, FiniteSets, TLC

VARIABLES mode, min_value_eth, done, G, pc, focus_addr, max_nodes, out, out2

vars == <<mode, min_value_eth, done, G, pc, focus_addr, max_nodes, out, out2>>

\* Bounds of the model.
MaxLen == 3
MaxLenOrder == 3
MaxLenSkip == 2
MaxLenTrim == 3
MantBits == 4
MaxBudget == 3

\* ------------------------------------------------------------------ values

\* Python's None, and a key that the record (a dict) does not hold.
NoneV == <<"None">>
Absent == <<"Absent">>

\* The truth value Python gives a record field: None and "" are falsy.
Falsy(v) == v = NoneV \/ v = <<>>

LowerChar(c) ==
    CASE c = "X" -> "x"
      [] c = "P" -> "p"
      [] c = "Q" -> "q"
      [] OTHER -> c

\* str.lower()
Lower(s) == [i \in DOMAIN s |-> LowerChar(s[i])]

IsDigit(c) == c \in {"0", "1", "2", "3", "4", "5", "6", "7", "8", "9"}

DigitVal(c) ==
    CASE c = "0" -> 0 [] c = "1" -> 1 [] c = "2" -> 2 [] c = "3" -> 3
      [] c = "4" -> 4 [] c = "5" -> 5 [] c = "6" -> 6 [] c = "7" -> 7
      [] c = "8" -> 8 [] c = "9" -> 9

AllDigits(s) == \A i \in DOMAIN s : IsDigit(s[i])

RECURSIVE DigitsVal(_)
DigitsVal(s) ==
    IF s = <<>> THEN 0
    ELSE 10 * DigitsVal(SubSeq(s, 1, Len(s) - 1)) + DigitVal(s[Len(s)])

Unsigned(s) == IF s # <<>> /\ Head(s) \in {"+", "-"} THEN Tail(s) ELSE s

SignOf(s) == IF s # <<>> /\ Head(s) = "-" THEN -1 ELSE 1

\* int(value) succeeds: an optional sign and one or more digits.
IsIntLiteral(s) == Unsigned(s) # <<>> /\ AllDigits(Unsigned(s))

DotAt(s) == {i \in DOMAIN s : s[i] = "."}

IntPart(s) == SubSeq(s, 1, (CHOOSE i \in DotAt(s) : TRUE) - 1)

FracPart(s) == SubSeq(s, (CHOOSE i \in DotAt(s) : TRUE) + 1, Len(s))

\* float(value) succeeds where int(value) did not: an optional sign, digits
\* around one decimal point, at least one digit.  The inputs of the model carry
\* at most one fractional digit, which tenths of a base unit hold exactly.
IsFloatLiteral(s) ==
    LET u == Unsigned(s)
    IN  /\ Cardinality(DotAt(u)) = 1
        /\ AllDigits(IntPart(u))
        /\ AllDigits(FracPart(u))
        /\ Len(IntPart(u)) + Len(FracPart(u)) > 0
        /\ Len(FracPart(u)) <= 1

Abs(x) == IF x < 0 THEN -x ELSE x

\* The spacing of the floats at magnitude m.
RECURSIVE Quantum(_)
Quantum(m) == IF m < 2 ^ MantBits THEN 1 ELSE 2 * Quantum(m \div 2)

\* Round to nearest float, ties to the even significand.
RoundF(x) ==
    LET m == Abs(x)
        q == Quantum(m)
        lo == (m \div q) * q
        hi == lo + q
        r == IF m - lo < hi - m THEN lo
             ELSE IF m - lo > hi - m THEN hi
             ELSE IF (lo \div q) % 2 = 0 THEN lo ELSE hi
    IN  IF x < 0 THEN -r ELSE r

\* The float addition of +=.
FAdd(a, b) == RoundF(a + b)

\* int(value) / 1e18, else float(value) / 1e18, else 0.0
wei_to_eth(value) ==
    IF IsIntLiteral(value)
    THEN RoundF(SignOf(value) * 10 * DigitsVal(Unsigned(value)))
    ELSE IF IsFloatLiteral(value)
    THEN RoundF(SignOf(value) * (10 * DigitsVal(IntPart(Unsigned(value)))
                                 + DigitsVal(FracPart(Unsigned(value)))))
    ELSE 0

\* tx.get("value", "0")
GetValue(tx) == IF tx.value = Absent THEN <<"0">> ELSE tx.value

\* str(v) of app.py's value_eth column.
Str(v) == IF v = NoneV THEN <<"N", "o", "n", "e">> ELSE v

\* ------------------------------------------------------------------- graph

\* nx.DiGraph(): nodes and edges in insertion order, attributes by key.  The
\* web builder stores no tx_in, tx_out or tx_count: those maps stay empty.
EmptyGraph ==
    [nodes |-> <<>>, total_in |-> <<>>, total_out |-> <<>>,
     tx_in |-> <<>>, tx_out |-> <<>>,
     edges |-> <<>>, total_value |-> <<>>, tx_count |-> <<>>]

Range(s) == {s[i] : i \in DOMAIN s}

has_node(g, n) == n \in Range(g.nodes)

has_edge(g, u, v) == <<u, v>> \in Range(g.edges)

\* G.add_node(n, total_in=0, total_out=0) of the web builder
add_node_web(g, n) ==
    [g EXCEPT !.nodes = Append(@, n),
              !.total_in = @ @@ (n :> 0),
              !.total_out = @ @@ (n :> 0)]

\* G.add_node(n, total_in=0.0, total_out=0.0, tx_in=0, tx_out=0)
add_node_desktop(g, n) ==
    [g EXCEPT !.nodes = Append(@, n),
              !.total_in = @ @@ (n :> 0),
              !.total_out = @ @@ (n :> 0),
              !.tx_in = @ @@ (n :> 0),
              !.tx_out = @ @@ (n :> 0)]

\* An edge step that overwrites the total of an existing edge.
EdgeStepWebAssign(g, frm, to, amt) ==
    IF has_edge(g, frm, to)
    THEN [g EXCEPT !.total_value[<<frm, to>>] = amt]
    ELSE [g EXCEPT !.edges = Append(@, <<frm, to>>),
                   !.total_value = @ @@ (<<frm, to>> :> amt)]

\* The edge step of the web builder.
EdgeStepWeb(g, frm, to, amt) ==
    IF has_edge(g, frm, to)
    THEN [g EXCEPT !.total_value[<<frm, to>>] = FAdd(@, amt)]
    ELSE [g EXCEPT !.edges = Append(@, <<frm, to>>),
                   !.total_value = @ @@ (<<frm, to>> :> amt)]

\* An edge step that adds a parallel transfer without counting it.
EdgeStepDesktopNoCount(g, frm, to, value) ==
    IF has_edge(g, frm, to)
    THEN [g EXCEPT !.total_value[<<frm, to>>] = FAdd(@, value)]
    ELSE [g EXCEPT !.edges = Append(@, <<frm, to>>),
                   !.total_value = @ @@ (<<frm, to>> :> value),
                   !.tx_count = @ @@ (<<frm, to>> :> 1)]

\* The edge step of the desktop builder.
EdgeStepDesktop(g, frm, to, value) ==
    IF has_edge(g, frm, to)
    THEN [g EXCEPT !.total_value[<<frm, to>>] = FAdd(@, value),
                   !.tx_count[<<frm, to>>] = @ + 1]
    ELSE [g EXCEPT !.edges = Append(@, <<frm, to>>),
                   !.total_value = @ @@ (<<frm, to>> :> value),
                   !.tx_count = @ @@ (<<frm, to>> :> 1)]

\* A skip test that needs both endpoints missing.
SkipWebBoth(frm, to, amt) == Falsy(frm) /\ Falsy(to)

\* A skip test that also drops a record whose amount is zero.
SkipWebZero(frm, to, amt) == Falsy(frm) \/ Falsy(to) \/ amt = 0

\* if not frm or not to: continue
SkipWeb(frm, to, amt) == Falsy(frm) \/ Falsy(to)

\* A skip test that also drops a record whose amount equals the threshold.
SkipDesktopAtThreshold(frm, to, value) ==
    \/ Falsy(frm) \/ Falsy(to)
    \/ value <= min_value_eth

\* if not frm or not to: continue; if value < min_value_eth: continue
SkipDesktop(frm, to, value) ==
    \/ Falsy(frm) \/ Falsy(to)
    \/ value < min_value_eth

\* A loop body of the web builder that credits the sender and not the receiver.
FoldWebNoIn(g, tx) ==
    LET frm == tx.from
        to == tx.to
        amt == wei_to_eth(GetValue(tx))
    IN  IF SkipWeb(frm, to, amt) THEN g
        ELSE LET g1 == IF has_node(g, frm) THEN g ELSE add_node_web(g, frm)
                 g2 == IF has_node(g1, to) THEN g1 ELSE add_node_web(g1, to)
                 g3 == [g2 EXCEPT !.total_out[frm] = FAdd(@, amt)]
             IN  EdgeStepWeb(g3, frm, to, amt)

\* One iteration of the loop of graph_builder.build_graph_from_txlist.
FoldWeb(g, tx) ==
    LET frm == tx.from
        to == tx.to
        amt == wei_to_eth(GetValue(tx))
    IN  IF SkipWeb(frm, to, amt) THEN g
        ELSE LET g1 == IF has_node(g, frm) THEN g ELSE add_node_web(g, frm)
                 g2 == IF has_node(g1, to) THEN g1 ELSE add_node_web(g1, to)
                 g3 == [g2 EXCEPT !.total_out[frm] = FAdd(@, amt)]
                 g4 == [g3 EXCEPT !.total_in[to] = FAdd(@, amt)]
             IN  EdgeStepWeb(g4, frm, to, amt)

\* One iteration of the loop of desktop_app.build_graph_from_txlist.
FoldDesktop(g, tx) ==
    LET frm == tx.from
        to == tx.to
        value == wei_to_eth(GetValue(tx))
    IN  IF SkipDesktop(frm, to, value) THEN g
        ELSE LET g1 == IF has_node(g, frm) THEN g ELSE add_node_desktop(g, frm)
                 g2 == IF has_node(g1, to) THEN g1 ELSE add_node_desktop(g1, to)
                 g3 == [g2 EXCEPT !.total_out[frm] = FAdd(@, value),
                                  !.tx_out[frm] = @ + 1]
                 g4 == [g3 EXCEPT !.total_in[to] = FAdd(@, value),
                                  !.tx_in[to] = @ + 1]
             IN  EdgeStepDesktop(g4, frm, to, value)

\* app.py: df = df[df["value_eth"] >= min_value], value_eth = wei_to_eth(str(v))
AppKeeps(tx) == wei_to_eth(Str(tx.value)) >= min_value_eth

\* What one record does to the graph, by entry point: the web builder called
\* directly, the web builder behind app.py's filter, the desktop builder.
FoldRecord(g, tx) ==
    CASE mode = "builder" -> FoldWeb(g, tx)
      [] mode = "app" -> IF AppKeeps(tx) THEN FoldWeb(g, tx) ELSE g
      [] mode = "desktop" -> FoldDesktop(g, tx)

\* The whole loop over a record list.
RECURSIVE Aggregate(_)
Aggregate(txlist) ==
    IF txlist = <<>> THEN EmptyGraph
    ELSE FoldRecord(Aggregate(SubSeq(txlist, 1, Len(txlist) - 1)),
                    txlist[Len(txlist)])

\* ------------------------------------------------------------ size bound

\* list(G.predecessors(n)): the sources of the edges into n, in the order the
\* edges were added.
RECURSIVE Predecessors(_, _)
Predecessors(es, n) ==
    IF es = <<>> THEN <<>>
    ELSE (IF Head(es)[2] = n THEN <<Head(es)[1]>> ELSE <<>>)
         \o Predecessors(Tail(es), n)

\* list(G.successors(n))
RECURSIVE Successors(_, _)
Successors(es, n) ==
    IF es = <<>> THEN <<>>
    ELSE (IF Head(es)[1] = n THEN <<Head(es)[2]>> ELSE <<>>)
         \o Successors(Tail(es), n)

\* lst[:k], Python's slice: a negative k counts from the end.
SliceTo(lst, k) ==
    IF k >= 0 THEN SubSeq(lst, 1, IF k < Len(lst) THEN k ELSE Len(lst))
    ELSE SubSeq(lst, 1, Len(lst) + k)

RECURSIVE KeepOnly(_, _)
KeepOnly(s, S) ==
    IF s = <<>> THEN <<>>
    ELSE (IF Head(s) \in S THEN <<Head(s)>> ELSE <<>>) \o KeepOnly(Tail(s), S)

Restrict(f, S) == [x \in S \cap DOMAIN f |-> f[x]]

\* A subgraph that keeps every edge touching a kept node.
SubgraphTouching(g, keep) ==
    LET ns == Range(g.nodes) \cap keep
        es == {e \in Range(g.edges) : e[1] \in ns \/ e[2] \in ns}
    IN  [nodes |-> KeepOnly(g.nodes, ns),
         total_in |-> Restrict(g.total_in, ns),
         total_out |-> Restrict(g.total_out, ns),
         tx_in |-> Restrict(g.tx_in, ns),
         tx_out |-> Restrict(g.tx_out, ns),
         edges |-> KeepOnly(g.edges, es),
         total_value |-> Restrict(g.total_value, es),
         tx_count |-> Restrict(g.tx_count, es)]

\* G.subgraph(keep).copy(): the kept nodes, the edges between them, and the
\* attributes they had.
Subgraph(g, keep) ==
    LET ns == Range(g.nodes) \cap keep
        es == {e \in Range(g.edges) : e[1] \in ns /\ e[2] \in ns}
    IN  [nodes |-> KeepOnly(g.nodes, ns),
         total_in |-> Restrict(g.total_in, ns),
         total_out |-> Restrict(g.total_out, ns),
         tx_in |-> Restrict(g.tx_in, ns),
         tx_out |-> Restrict(g.tx_out, ns),
         edges |-> KeepOnly(g.edges, es),
         total_value |-> Restrict(g.total_value, es),
         tx_count |-> Restrict(g.tx_count, es)]

\* neighbors = list(G.predecessors(focus)) + list(G.successors(focus))
Neighbors(es, focus) == Predecessors(es, focus) \o Successors(es, focus)

\* keep = {focus} | set(neighbors[: max_nodes - 1])
KeepSet(es, focus, m) == {focus} \cup Range(SliceTo(Neighbors(es, focus), m - 1))

\* Whether the trim of build_graph_from_txlist is taken.
TrimActive(g, f, m) ==
    Len(g.nodes) > m /\ ~Falsy(f) /\ has_node(g, Lower(f))

\* The trim step: graph g whose edges iterate in the order es.
Bound(g, es, f, m) ==
    IF TrimActive(g, f, m)
    THEN Subgraph(g, KeepSet(es, Lower(f), m))
    ELSE g

Perms(s) ==
    {t \in [DOMAIN s -> Range(s)] :
        \A x \in Range(s) :
            Cardinality({i \in DOMAIN s : s[i] = x})
                = Cardinality({i \in DOMAIN s : t[i] = x})}

\* The default of max_nodes.
DefaultMaxNodes == 300

\* ----------------------------------------------------------------- inputs

A_ == <<"a">>
B_ == <<"b">>
X_ == <<"x">>
XU == <<"X">>
P_ == <<"p">>
Q_ == <<"q">>
Z_ == <<"z">>

Rec(f, t, v) == [from |-> f, to |-> t, value |-> v]

AggEndpoints == ({A_, B_} \X {A_, B_}) \cup {<<A_, NoneV>>}

AggValues == {<<"1">>, <<"2">>, <<"3">>}

AggRecords == {Rec(e[1], e[2], v) : e \in AggEndpoints, v \in AggValues}

OrderEndpoints == {<<A_, B_>>, <<B_, A_>>, <<A_, A_>>}

OrderRecords == {Rec(e[1], e[2], v) : e \in OrderEndpoints, v \in AggValues}

SkipEndpoints ==
    {<<A_, B_>>, <<B_, B_>>}
        \cup {<<A_, NoneV>>, <<A_, <<>>>>, <<NoneV, B_>>, <<<<>>, B_>>}

SkipValues ==
    {<<"1">>, <<"2">>, <<"3">>, <<"-", "1">>, <<"1", ".", "5">>,
     <<"x">>, <<>>, NoneV, Absent}

SkipRecords == {Rec(e[1], e[2], v) : e \in SkipEndpoints, v \in SkipValues}

TrimRecords == {Rec(f, t, <<"1">>) : f \in {X_, XU, P_, Q_}, t \in {X_, XU, P_, Q_}}

FocusInputs == {NoneV, <<>>, X_, XU, Z_}

\* The thresholds tried: none, and the amount of the value "2".
Thresholds == {0, wei_to_eth(<<"2">>)}

\* ---------------------------------------------------------------- actions

TypeOK ==
    /\ mode \in {"builder", "app", "desktop"}
    /\ pc \in {"loop", "returned", "rebound"}

InitCommon ==
    /\ done = <<>>
    /\ G = EmptyGraph
    /\ pc = "loop"
    /\ focus_addr = NoneV
    /\ max_nodes = DefaultMaxNodes
    /\ out = EmptyGraph
    /\ out2 = EmptyGraph

\* A call: the entry point, and the minimum amount where one is taken.
Init ==
    /\ InitCommon
    /\ \/ mode = "builder" /\ min_value_eth = 0
       \/ mode \in {"app", "desktop"} /\ min_value_eth \in Thresholds

InitTrim ==
    /\ InitCommon
    /\ mode = "builder"
    /\ min_value_eth = 0

\* The loop body on the next record of the list.  app.py reads the column
\* df["value"], which the records it is given hold.
Fold(tx, bound) ==
    /\ pc = "loop"
    /\ Len(done) < bound
    /\ mode = "app" => tx.value # Absent
    /\ done' = Append(done, tx)
    /\ G' = FoldRecord(G, tx)
    /\ UNCHANGED <<mode, min_value_eth, pc, focus_addr, max_nodes, out, out2>>

\* The end of the loop of the web builder: the trim, and the return.
Return(f, m) ==
    /\ pc = "loop"
    /\ mode \in {"builder", "app"}
    /\ focus_addr' = f
    /\ max_nodes' = m
    /\ out' = Bound(G, G.edges, f, m)
    /\ pc' = "returned"
    /\ UNCHANGED <<mode, min_value_eth, done, G, out2>>

\* The end of the loop of the desktop builder: return G.
ReturnDesktop ==
    /\ pc = "loop"
    /\ mode = "desktop"
    /\ out' = G
    /\ pc' = "returned"
    /\ UNCHANGED <<mode, min_value_eth, done, G, focus_addr, max_nodes, out2>>

\* The trim step applied again, to the graph it returned, with the same focus
\* and budget.  A copy of a subgraph view iterates its nodes and adjacency in
\* set order when the kept set is the smaller side, so the copy's edges may
\* come in any order.
Rebound ==
    /\ pc = "returned"
    /\ mode \in {"builder", "app"}
    /\ \E es \in (IF TrimActive(out, focus_addr, max_nodes)
                  THEN Perms(out.edges) ELSE {out.edges}) :
            out2' = Bound(out, es, focus_addr, max_nodes)
    /\ pc' = "rebound"
    /\ UNCHANGED <<mode, min_value_eth, done, G, focus_addr, max_nodes, out>>

NextAgg ==
    \/ \E tx \in AggRecords : Fold(tx, MaxLen)
    \/ Return(NoneV, DefaultMaxNodes)
    \/ ReturnDesktop

NextOrder == \E tx \in OrderRecords : Fold(tx, MaxLenOrder)

NextSkip ==
    \/ \E tx \in SkipRecords : Fold(tx, MaxLenSkip)
    \/ Return(NoneV, DefaultMaxNodes)
    \/ ReturnDesktop

NextTrim ==
    \/ \E tx \in TrimRecords : Fold(tx, MaxLenTrim)
    \/ \E f \in FocusInputs, m \in 0 .. MaxBudget : Return(f, m)
    \/ Rebound

Spec == Init /\ [][NextAgg]_vars

SpecOrder == Init /\ [][NextOrder]_vars

SpecSkip == Init /\ [][NextSkip]_vars

SpecTrim == InitTrim /\ [][NextTrim]_vars

\* ------------------------------------------------------------ trim claims

NodeSet(g) == Range(g.nodes)

EdgeSet(g) == Range(g.edges)

\* Same nodes, edges and attribute values, whatever the iteration order.
SameGraph(g, h) ==
    /\ NodeSet(g) = NodeSet(h)
    /\ EdgeSet(g) = EdgeSet(h)
    /\ g.total_in = h.total_in
    /\ g.total_out = h.total_out
    /\ g.tx_in = h.tx_in
    /\ g.tx_out = h.tx_out
    /\ g.total_value = h.total_value
    /\ g.tx_count = h.tx_count

\* The first k entries of a list; none when k <= 0.
FirstEntries(lst, k) ==
    IF k <= 0 THEN <<>> ELSE SubSeq(lst, 1, IF k < Len(lst) THEN k ELSE Len(lst))

\* C1 (trim correctness), as claimed: when the focus is a node key of the
\* aggregated graph, in the casing in which it was stored, and the graph has
\* more than max_nodes nodes, the returned node set is the focus and the first
\* max_nodes - 1 entries of predecessors(focus) ++ successors(focus).
C1_TrimCorrectness ==
    (/\ pc = "returned"
     /\ has_node(G, focus_addr)
     /\ Len(G.nodes) > max_nodes)
        => NodeSet(out)
            = {focus_addr}
                \cup Range(FirstEntries(Neighbors(G.edges, focus_addr), max_nodes - 1))

\* C1, what the code does do: the claimed node set for a focus stored in lower
\* case and a budget of at least one node.
C1_LowerCaseFocus ==
    (/\ pc = "returned"
     /\ has_node(G, focus_addr)
     /\ focus_addr = Lower(focus_addr)
     /\ max_nodes >= 1
     /\ Len(G.nodes) > max_nodes)
        => NodeSet(out)
            = {focus_addr}
                \cup Range(FirstEntries(Neighbors(G.edges, focus_addr), max_nodes - 1))

\* C2 (trim identity), as claimed: when the graph has at most max_nodes nodes,
\* or the focus is null or empty, or the focus is not, as a case-sensitive
\* string, a node key, the full aggregated graph is returned.
C2_TrimIdentity ==
    (/\ pc = "returned"
     /\ \/ Len(G.nodes) <= max_nodes
        \/ Falsy(focus_addr)
        \/ ~has_node(G, focus_addr))
        => SameGraph(out, G)

\* C2, what the code does do: identity when the lower-cased focus is no node key.
C2_LowerCasedIdentity ==
    (/\ pc = "returned"
     /\ \/ Len(G.nodes) <= max_nodes
        \/ Falsy(focus_addr)
        \/ ~has_node(G, Lower(focus_addr)))
        => SameGraph(out, G)

\* C3 (trim idempotence), as claimed: for every max_nodes >= 0, the trim applied
\* to the graph it returned, with the same focus and max_nodes, returns that
\* graph again.
C3_TrimIdempotent == pc = "rebound" => SameGraph(out2, out)

\* C3, what the code does do: idempotent for a budget of at least one node.
C3_IdempotentFromOne == (pc = "rebound" /\ max_nodes >= 1) => SameGraph(out2, out)

\* C9 (induced subgraph, untouched attributes): whenever the trim activates,
\* the returned graph holds the node the trim is centred on, its nodes are
\* nodes of the full graph with the total_in and total_out they had there, and
\* its edges are exactly the full graph's edges with both endpoints kept, each
\* with its original total_value.
C9_InducedSubgraph ==
    (/\ pc = "returned"
     /\ Len(G.nodes) > max_nodes
     /\ ~Falsy(focus_addr)
     /\ has_node(G, Lower(focus_addr)))
        => /\ Lower(focus_addr) \in NodeSet(out)
           /\ NodeSet(out) \subseteq NodeSet(G)
           /\ Len(out.nodes) = Cardinality(NodeSet(out))
           /\ DOMAIN out.total_in = NodeSet(out)
           /\ DOMAIN out.total_out = NodeSet(out)
           /\ \A n \in NodeSet(out) :
                /\ out.total_in[n] = G.total_in[n]
                /\ out.total_out[n] = G.total_out[n]
           /\ EdgeSet(out)
                = {e \in EdgeSet(G) : e[1] \in NodeSet(out) /\ e[2] \in NodeSet(out)}
           /\ Len(out.edges) = Cardinality(EdgeSet(out))
           /\ DOMAIN out.total_value = EdgeSet(out)
           /\ \A e \in EdgeSet(out) : out.total_value[e] = G.total_value[e]

\* C9's case: a trim that dropped a node and kept an edge that does not touch
\* the focus (a self-loop of a kept neighbour, or an edge between two of them).
C9_Witness ==
    /\ pc = "returned"
    /\ Len(G.nodes) > max_nodes
    /\ ~Falsy(focus_addr)
    /\ has_node(G, Lower(focus_addr))
    /\ Len(out.nodes) < Len(G.nodes)
    /\ \E e \in EdgeSet(out) : e[1] # Lower(focus_addr) /\ e[2] # Lower(focus_addr)
    /\ \E n \in NodeSet(out) : out.total_in[n] > 0 /\ out.total_out[n] > 0

\* ----------------------------------------------------- aggregation claims

\* The converted amount of a record.
Amount(tx) == wei_to_eth(GetValue(tx))

EndpointsPresent(tx) == ~Falsy(tx.from) /\ ~Falsy(tx.to)

\* A record that is folded in: both endpoints present and, where a minimum
\* amount is taken, an amount not below it.
NotSkipped(tx) ==
    EndpointsPresent(tx) /\ (mode = "builder" \/ Amount(tx) >= min_value_eth)

\* The positions of the folded records of a list that satisfy a test on
\* (from, to) given as a set of pairs.
FoldedAt(txlist, pairs) ==
    {i \in DOMAIN txlist :
        NotSkipped(txlist[i]) /\ <<txlist[i].from, txlist[i].to>> \in pairs}

\* The exact sum of the amounts at the positions S.
RECURSIVE ExactSum(_, _)
ExactSum(txlist, S) ==
    IF S = {} THEN 0
    ELSE LET i == CHOOSE j \in S : TRUE
         IN  Amount(txlist[i]) + ExactSum(txlist, S \ {i})

\* The float sum of the amounts at the positions S, accumulated in list order.
RECURSIVE FloatSum(_, _)
FloatSum(txlist, S) ==
    LET i == CHOOSE j \in S : \A k \in S : k <= j
    IN  IF S = {i} THEN Amount(txlist[i])
        ELSE FAdd(FloatSum(txlist, S \ {i}), Amount(txlist[i]))

Addresses(txlist) ==
    {txlist[i].from : i \in DOMAIN txlist} \cup {txlist[i].to : i \in DOMAIN txlist}

\* No float addition of the amounts that reach one total rounds, in whatever
\* order they are added: every partial sum is a float.
NoRounding(txlist) ==
    \A n \in Addresses(txlist) :
        /\ \A S \in SUBSET FoldedAt(txlist, {n} \X Addresses(txlist)) :
                RoundF(ExactSum(txlist, S)) = ExactSum(txlist, S)
        /\ \A S \in SUBSET FoldedAt(txlist, Addresses(txlist) \X {n}) :
                RoundF(ExactSum(txlist, S)) = ExactSum(txlist, S)

\* C4 (order independence), as claimed: every permutation of the records
\* aggregates to the same nodes, edges, totals and counts.
C4_OrderIndependent == \A p \in Perms(done) : SameGraph(Aggregate(p), G)

\* C4, amended: every permutation of the records aggregates to the same node
\* set, edge set and transfer counts, and to the same total_in, total_out and
\* total_value whenever no float addition of the contributing amounts rounds.
C4_OrderIndependentUpToRounding ==
    LET exact == NoRounding(done)
    IN  \A p \in Perms(done) :
            LET h == Aggregate(p)
            IN  /\ NodeSet(h) = NodeSet(G)
                /\ EdgeSet(h) = EdgeSet(G)
                /\ h.tx_in = G.tx_in
                /\ h.tx_out = G.tx_out
                /\ h.tx_count = G.tx_count
                /\ exact =>
                        /\ h.total_in = G.total_in
                        /\ h.total_out = G.total_out
                        /\ h.total_value = G.total_value

\* C4's case: three folded records of different amounts on one edge, none of
\* whose additions rounds, aggregated by the desktop builder.
C4_Witness ==
    /\ mode = "desktop"
    /\ Len(done) = 3
    /\ NoRounding(done)
    /\ \E e \in EdgeSet(G) :
            /\ G.tx_count[e] = 3
            /\ G.total_value[e] > 0
    /\ \E i, j \in DOMAIN done : Amount(done[i]) # Amount(done[j])

\* C5 (collapse): there is one edge per ordered pair of a folded record and no
\* other; its total_value is the float sum, in record order, of the amounts of
\* the folded records of that pair, and the desktop builder's tx_count is the
\* number of those records, at least 1.
C5_Collapse ==
    /\ Len(G.edges) = Cardinality(EdgeSet(G))
    /\ EdgeSet(G)
        = {<<done[i].from, done[i].to>> : i \in {j \in DOMAIN done : NotSkipped(done[j])}}
    /\ DOMAIN G.total_value = EdgeSet(G)
    /\ \A e \in EdgeSet(G) :
            /\ G.total_value[e] = FloatSum(done, FoldedAt(done, {e}))
            /\ mode = "desktop" =>
                    /\ G.tx_count[e] = Cardinality(FoldedAt(done, {e}))
                    /\ G.tx_count[e] >= 1

\* C5's case: two transfers of different amounts collapsed into one edge.
C5_Witness ==
    /\ mode = "desktop"
    /\ \E e \in EdgeSet(G) :
            /\ G.tx_count[e] = 2
            /\ G.total_value[e] = wei_to_eth(<<"1">>) + wei_to_eth(<<"2">>)
            /\ \E i, j \in FoldedAt(done, {e}) : Amount(done[i]) # Amount(done[j])

\* The records of a list that have both endpoints, in list order.
RECURSIVE WellFormed(_)
WellFormed(txlist) ==
    IF txlist = <<>> THEN <<>>
    ELSE (IF EndpointsPresent(Head(txlist)) THEN <<Head(txlist)>> ELSE <<>>)
         \o WellFormed(Tail(txlist))

\* C6 (skip on malformed endpoints): a record whose from or to is absent or
\* empty changes nothing, and the records around it are processed: the graph
\* is the graph of the list without those records, and no node has an absent
\* or empty key.
C6_SkipMalformed ==
    /\ G = Aggregate(WellFormed(done))
    /\ \A n \in NodeSet(G) : ~Falsy(n)

\* C6's case: a record with from present and to absent, then a folded record.
C6_Witness ==
    /\ Len(done) = 2
    /\ done[1].from = A_ /\ done[1].to = NoneV
    /\ done[2].from = B_ /\ done[2].to = B_ /\ Amount(done[2]) > 0
    /\ NodeSet(G) = {B_}
    /\ G.total_in[B_] = Amount(done[2])

\* The record the last step of the loop processed.
LastRecord(txlist) == txlist[Len(txlist)]

\* What folding in a record of amount amt does to the graph g.
FoldedIn(g, h, tx, amt) ==
    LET e == <<tx.from, tx.to>>
    IN  /\ e \in EdgeSet(h)
        /\ h.total_value[e] = IF e \in EdgeSet(g) THEN FAdd(g.total_value[e], amt) ELSE amt
        /\ tx.from # tx.to =>
            /\ h.total_out[tx.from]
                = FAdd(IF has_node(g, tx.from) THEN g.total_out[tx.from] ELSE 0, amt)
            /\ h.total_in[tx.to]
                = FAdd(IF has_node(g, tx.to) THEN g.total_in[tx.to] ELSE 0, amt)
        /\ mode = "desktop" =>
                h.tx_count[e] = IF e \in EdgeSet(g) THEN g.tx_count[e] + 1 ELSE 1

\* C7 (threshold filter): where a minimum amount is taken, a record whose
\* amount is strictly below it leaves the graph unchanged, and a record with
\* both endpoints whose amount equals it is folded in.
C7_ThresholdFilter ==
    [][(mode # "builder" /\ done' # done) =>
            /\ Amount(LastRecord(done')) < min_value_eth => G' = G
            /\ (Amount(LastRecord(done')) = min_value_eth
                    /\ EndpointsPresent(LastRecord(done'))) =>
                  FoldedIn(G, G', LastRecord(done'), min_value_eth)]_vars

\* C7's case: under a positive threshold, a record below it and then a record
\* equal to it, which alone makes the graph.
C7_Witness ==
    /\ mode = "desktop"
    /\ min_value_eth > 0
    /\ Len(done) = 2
    /\ EndpointsPresent(done[1]) /\ IsIntLiteral(done[1].value)
    /\ Amount(done[1]) > 0 /\ Amount(done[1]) < min_value_eth
    /\ EndpointsPresent(done[2]) /\ Amount(done[2]) = min_value_eth
    /\ done[1].from # done[2].from
    /\ Len(G.edges) = 1
    /\ G.total_value[<<done[2].from, done[2].to>>] = min_value_eth
    /\ G.tx_count[<<done[2].from, done[2].to>>] = 1

\* A value that neither int() nor float() parses, after the default of a
\* missing key.
NonNumeric(tx) == ~IsIntLiteral(GetValue(tx)) /\ ~IsFloatLiteral(GetValue(tx))

RECURSIVE NumericOnly(_)
NumericOnly(txlist) ==
    IF txlist = <<>> THEN <<>>
    ELSE (IF EndpointsPresent(Head(txlist)) /\ NonNumeric(Head(txlist))
          THEN <<>> ELSE <<Head(txlist)>>)
         \o NumericOnly(Tail(txlist))

\* The list with every non-numeric value replaced by "0".
ZeroValued(txlist) ==
    [i \in DOMAIN txlist |->
        IF NonNumeric(txlist[i]) THEN [txlist[i] EXCEPT !.value = <<"0">>]
        ELSE txlist[i]]

\* C8 (non-numeric amounts), as claimed: a record with both endpoints and a
\* non-numeric, null or empty value is skipped: the graph is the graph of the
\* list without those records.
C8_NonNumericSkipped == G = Aggregate(NumericOnly(done))

\* C8, amended: such a record is not skipped but folded in with the amount 0.0,
\* like the same record with the value "0": unless a positive minimum amount
\* filters the zero amount out, both endpoints become nodes and the pair an
\* edge, and no total changes by it; the records after it are processed.
C8_NonNumericFoldedAsZero ==
    /\ G = Aggregate(ZeroValued(done))
    /\ \A i \in DOMAIN done :
            (/\ EndpointsPresent(done[i])
             /\ NonNumeric(done[i])
             /\ (mode = "builder" \/ min_value_eth <= 0)) =>
                /\ has_node(G, done[i].from)
                /\ has_node(G, done[i].to)
                /\ has_edge(G, done[i].from, done[i].to)
                /\ G.total_value[<<done[i].from, done[i].to>>]
                    = FloatSum(done, FoldedAt(done, {<<done[i].from, done[i].to>>}))

\* C8's case: a lone record with both endpoints and a non-numeric value, which
\* made two nodes and an edge of total 0, then a folded record.
C8_Witness ==
    /\ Len(done) = 2
    /\ done[1] = Rec(A_, B_, <<"x">>)
    /\ done[2] = Rec(B_, B_, <<"2">>)
    /\ NodeSet(G) = {A_, B_}
    /\ EdgeSet(G) = {<<A_, B_>>, <<B_, B_>>}
    /\ G.total_value[<<A_, B_>>] = 0
    /\ G.total_out[A_] = 0
    /\ G.total_in[B_] = Amount(done[2])

NonNegative(g) ==
    /\ \A n \in DOMAIN g.total_in : g.total_in[n] >= 0
    /\ \A n \in DOMAIN g.total_out : g.total_out[n] >= 0
    /\ \A e \in DOMAIN g.total_value : g.total_value[e] >= 0

NoDecrease(g, h) ==
    /\ \A n \in DOMAIN g.total_in : h.total_in[n] >= g.total_in[n]
    /\ \A n \in DOMAIN g.total_out : h.total_out[n] >= g.total_out[n]
    /\ \A e \in DOMAIN g.total_value : h.total_value[e] >= g.total_value[e]

\* C10 (non-negative monotone totals), as claimed: in every state of the fold,
\* whatever the sign of the values, every total_in, total_out and total_value
\* is >= 0, and no total decreases from one processed record to the next.
C10_NonNegativeMonotone == [](NonNegative(G)) /\ [][NoDecrease(G, G')]_vars

\* C10, what the code does do: the totals are non-negative and monotone where
\* a minimum amount >= 0 is taken, which drops the negative amounts.
C10_WithThreshold ==
    [](mode # "builder" => NonNegative(G))
        /\ [][mode # "builder" => NoDecrease(G, G')]_vars

\* ----------------------------------------------------- conservation claim

OutEdges(g, n) == {e \in EdgeSet(g) : e[1] = n}

InEdges(g, n) == {e \in EdgeSet(g) : e[2] = n}

\* The exact sum of the attribute f over the keys S.
RECURSIVE SumOver(_, _)
SumOver(f, S) ==
    IF S = {} THEN 0
    ELSE LET x == CHOOSE y \in S : TRUE
         IN  f[x] + SumOver(f, S \ {x})

\* The float sums of the attribute f over the keys S, in every order of adding.
RECURSIVE FloatSums(_, _)
FloatSums(f, S) ==
    IF S = {} THEN {0}
    ELSE UNION {{FAdd(s, f[x]) : s \in FloatSums(f, S \ {x})} : x \in S}

\* The values "the sum of f over S" can stand for: the exact sum, or a float
\* sum in some order.
Sums(f, S) == {SumOver(f, S)} \cup FloatSums(f, S)

EndpointsAreNodes(g) ==
    \A e \in EdgeSet(g) : has_node(g, e[1]) /\ has_node(g, e[2])

\* C11 (conservation of value), as claimed: after any prefix of the records,
\* before any trim, every edge's endpoints are nodes, each node's total_out is
\* the sum of total_value over its outgoing edges and its total_in the sum over
\* its incoming edges, and the sums of total_out over the nodes, of total_in
\* over the nodes and of total_value over the edges are one value.  The sum is
\* taken in the reading most favourable to the claim: exact, or float in any order.
C11_Conservation ==
    /\ EndpointsAreNodes(G)
    /\ \A n \in NodeSet(G) :
            /\ G.total_out[n] \in Sums(G.total_value, OutEdges(G, n))
            /\ G.total_in[n] \in Sums(G.total_value, InEdges(G, n))
    /\ Sums(G.total_out, NodeSet(G)) \cap Sums(G.total_in, NodeSet(G))
            \cap Sums(G.total_value, EdgeSet(G)) # {}

\* C11, amended: every edge's endpoints are nodes; each node's total_out and
\* total_in is the float sum, in record order, of the amounts of the folded
\* records it sends and receives; and whenever no float addition of the
\* contributing amounts rounds, total_out is the sum of total_value over the
\* outgoing edges, total_in the sum over the incoming edges, and the three
\* graph-wide sums are equal.
C11_ConservationUpToRounding ==
    /\ EndpointsAreNodes(G)
    /\ DOMAIN G.total_out = NodeSet(G)
    /\ DOMAIN G.total_in = NodeSet(G)
    /\ \A n \in NodeSet(G) :
            LET sent == FoldedAt(done, {n} \X Addresses(done))
                received == FoldedAt(done, Addresses(done) \X {n})
            IN  /\ G.total_out[n] = IF sent = {} THEN 0 ELSE FloatSum(done, sent)
                /\ G.total_in[n] = IF received = {} THEN 0 ELSE FloatSum(done, received)
    /\ NoRounding(done) =>
            /\ \A n \in NodeSet(G) :
                    /\ G.total_out[n] = SumOver(G.total_value, OutEdges(G, n))
                    /\ G.total_in[n] = SumOver(G.total_value, InEdges(G, n))
            /\ SumOver(G.total_out, NodeSet(G)) = SumOver(G.total_value, EdgeSet(G))
            /\ SumOver(G.total_in, NodeSet(G)) = SumOver(G.total_value, EdgeSet(G))

\* C11's case: a node that sent three transfers over two edges, one of them
\* holding two transfers of different amounts, none of whose additions rounds.
C11_Witness ==
    /\ pc = "loop"
    /\ Len(done) = 3
    /\ NoRounding(done)
    /\ Cardinality(OutEdges(G, A_)) = 2
    /\ Cardinality(FoldedAt(done, {<<A_, B_>>})) = 2
    /\ Cardinality(FoldedAt(done, {<<A_, A_>>})) = 1
    /\ \E i, j \in FoldedAt(done, {<<A_, B_>>}) : Amount(done[i]) # Amount(done[j])
    /\ G.total_out[A_] = G.total_value[<<A_, B_>>] + G.total_value[<<A_, A_>>]
    /\ G.total_out[A_] > G.total_in[A_]

====
